---------------------------- MODULE Spec2Model ----------------------------
(***************************************************************************)
(* Model of the desktop-ai assistant: the command-line entry point          *)
(* (cli.run), the assistant loop and turn executor (DesktopAssistant),      *)
(* the wake-word listener (OpenAIWakeWordListener), the speech synthesizer  *)
(* (ElevenLabsSpeechSynthesizer) and the audio sink (LocalAudioOutput).     *)
(*                                                                          *)
(* Text is modelled as a sequence of one-character strings so that the      *)
(* string operations of the source (strip, lstrip, regex search) are        *)
(* computed, not assumed.  Python's None is the one-element sequence        *)
(* <<"None">>, which is not a text because "None" is not one character.     *)
(***************************************************************************)
EXTENDS Integers, Sequences, FiniteSets, TLC

(***************************************************************************)
(* Bounds of the model (not program constants).                             *)
(***************************************************************************)
MaxTurnsArg == 2

MaxCompleted == 3

MaxListens == 3

MaxPrimaryLen == 4

MaxFollowupLen == 3

HistLen == 3

(***************************************************************************)
(* Python values.                                                           *)
(***************************************************************************)
None == <<"None">>

Truthy(v) == v /= None /\ v /= <<>>

PyOr(a, b) == IF Truthy(a) THEN a ELSE b

(***************************************************************************)
(* Text helpers: str.strip(), str.lstrip(chars), \w, case folding.          *)
(***************************************************************************)
Whitespace == {" "}

NoteLeadChars == {" ", ",", ":", ";", ".", "!", "?", "-"}

WordChars == {"a", "b", "g", "h", "i", "o", "A", "B", "O"}

Lower(c) == CASE c = "A" -> "a" [] c = "B" -> "b" [] c = "O" -> "o" [] OTHER -> c

RECURSIVE LStrip(_, _)
LStrip(s, chars) ==
    IF s /= <<>> /\ Head(s) \in chars THEN LStrip(Tail(s), chars) ELSE s

RECURSIVE RStrip(_, _)
RStrip(s, chars) ==
    IF s /= <<>> /\ s[Len(s)] \in chars
    THEN RStrip(SubSeq(s, 1, Len(s) - 1), chars)
    ELSE s

Strip(s) == RStrip(LStrip(s, Whitespace), Whitespace)

(***************************************************************************)
(* The wake-word pattern  \b<wake_word>\b  with re.IGNORECASE.              *)
(***************************************************************************)
WakeWord == <<"b", "o">>

IsWordAt(s, p) == p >= 1 /\ p <= Len(s) /\ s[p] \in WordChars

Boundary_Always(s, p) == TRUE

Boundary(s, p) == IsWordAt(s, p - 1) /= IsWordAt(s, p)

MatchAt(s, i) ==
    /\ i >= 1
    /\ i + Len(WakeWord) - 1 <= Len(s)
    /\ \A k \in 1..Len(WakeWord) : Lower(s[i + k - 1]) = Lower(WakeWord[k])
    /\ Boundary(s, i)
    /\ Boundary(s, i + Len(WakeWord))

FirstMatchFrom(s, from) ==
    LET hits == {i \in from..Len(s) : MatchAt(s, i)}
    IN  IF hits = {} THEN 0 ELSE CHOOSE i \in hits : \A j \in hits : i <= j

PatternSearch_Always(s) == TRUE

PatternSearch(s) == FirstMatchFrom(s, 1) /= 0

RECURSIVE LastMatchEnd(_, _, _)
LastMatchEnd(s, from, lastEnd) ==
    LET i == FirstMatchFrom(s, from)
    IN  IF i = 0 THEN lastEnd
        ELSE LastMatchEnd(s, i + Len(WakeWord), i + Len(WakeWord) - 1)

clean_user_note_KeepEmpty(text) == Strip(LStrip(text, NoteLeadChars))

clean_user_note(text) ==
    LET cleaned == Strip(LStrip(text, NoteLeadChars))
    IN  PyOr(cleaned, None)

extract_user_note_after_wake_word_First(transcript) ==
    LET i == FirstMatchFrom(transcript, 1)
    IN  IF i = 0 THEN None
        ELSE clean_user_note(SubSeq(transcript, i + Len(WakeWord), Len(transcript)))

extract_user_note_after_wake_word(transcript) ==
    LET e == LastMatchEnd(transcript, 1, 0)
    IN  IF e = 0 THEN None
        ELSE clean_user_note(SubSeq(transcript, e + 1, Len(transcript)))


(***************************************************************************)
(* Domain records.  A record with none |-> TRUE stands for Python's None    *)
(* where the other alternative is a record.                                 *)
(***************************************************************************)
NoneActivation == [none |-> TRUE]

VoiceActivation(transcript_, wake_word_, user_note_) ==
    [none |-> FALSE, transcript |-> transcript_, wake_word |-> wake_word_,
     user_note |-> user_note_]

NoResult == [none |-> TRUE]

AssistantTurnResult(prompt_, response_text_, context_, audio_path_) ==
    [none |-> FALSE, prompt |-> prompt_, response_text |-> response_text_,
     context |-> context_, audio_path |-> audio_path_]

(***************************************************************************)
(* Prompt building.  A mapping (dict) is a sequence of <<key, value>> pairs *)
(* in insertion order with distinct keys; keys and values are texts.        *)
(* Texts compare as Python strings do: by code point, then by length.       *)
(***************************************************************************)
Ord(c) ==
    CASE c = " " -> 32
      [] c = "'" -> 39
      [] c = "," -> 44
      [] c = "-" -> 45
      [] c = "." -> 46
      [] c = "1" -> 49
      [] c = ":" -> 58
      [] c = "a" -> 97
      [] c = "b" -> 98
      [] c = "c" -> 99
      [] c = "h" -> 104
      [] c = "i" -> 105
      [] c = "v" -> 118
      [] c = "w" -> 119

RECURSIVE StrLess(_, _)
StrLess(a, b) ==
    IF b = <<>> THEN FALSE
    ELSE IF a = <<>> THEN TRUE
    ELSE IF Head(a) = Head(b) THEN StrLess(Tail(a), Tail(b))
    ELSE Ord(Head(a)) < Ord(Head(b))

ItemLeq(x, y) ==
    \/ StrLess(x[1], y[1])
    \/ x[1] = y[1] /\ (x[2] = y[2] \/ StrLess(x[2], y[2]))

RECURSIVE SortedInsert(_, _)
SortedInsert(item, sorted) ==
    IF sorted = <<>> THEN <<item>>
    ELSE IF ItemLeq(item, Head(sorted)) THEN <<item>> \o sorted
    ELSE <<Head(sorted)>> \o SortedInsert(item, Tail(sorted))

RECURSIVE SortedItems(_)
SortedItems(items) ==
    IF items = <<>> THEN <<>>
    ELSE SortedInsert(Head(items), SortedItems(Tail(items)))

RECURSIVE Join(_, _)
Join(separator, texts) ==
    IF texts = <<>> THEN <<>>
    ELSE IF Len(texts) = 1 THEN Head(texts)
    ELSE Head(texts) \o separator \o Join(separator, Tail(texts))

ContextLine(item) == <<"-", " ">> \o item[1] \o <<":", " ">> \o item[2]

ContextLines(items) == [i \in 1..Len(items) |-> ContextLine(items[i])]

build_context_block_Unsorted(context_) ==
    IF context_ = <<>> THEN <<"No structured context was collected.">>
    ELSE Join(<<"\n">>, ContextLines(context_))

build_context_block(context_) ==
    IF context_ = <<>> THEN <<"No structured context was collected.">>
    ELSE Join(<<"\n">>, ContextLines(SortedItems(context_)))

NotePromptHead == <<"You are speaking to the user in real time ... User note:\n">>

CheckInPromptHead == <<"No explicit user request was provided. ... 1 to 2 sentences.\n\n">>

StructuredContextHead == <<"Structured context:\n">>

PromptTail == <<"\n\n", "Return only the spoken reply.">>

build_user_prompt_NoStrip(context_, user_note_) ==
    LET note == IF Truthy(user_note_) THEN user_note_ ELSE <<>>
        context_block == build_context_block(context_)
    IN  IF Truthy(note)
        THEN NotePromptHead \o note \o <<"\n\n">> \o StructuredContextHead
                 \o context_block \o PromptTail
        ELSE CheckInPromptHead \o StructuredContextHead
                 \o context_block \o PromptTail

build_user_prompt(context_, user_note_) ==
    LET note == IF Truthy(user_note_) THEN Strip(user_note_) ELSE <<>>
        context_block == build_context_block(context_)
    IN  IF Truthy(note)
        THEN NotePromptHead \o note \o <<"\n\n">> \o StructuredContextHead
                 \o context_block \o PromptTail
        ELSE CheckInPromptHead \o StructuredContextHead
                 \o context_block \o PromptTail

(***************************************************************************)
(* Inputs of the model: what the collaborators can return.                  *)
(***************************************************************************)
ExcKinds == {"Exception", "KeyboardInterrupt"}

Raised == {<<k>> : k \in ExcKinds}

StaticNotes == {None, <<>>, <<"h", "i">>}

NoMaxTurns == [given |-> FALSE, n |-> 0]

MaxTurnsValues ==
    {NoMaxTurns} \cup {[given |-> TRUE, n |-> k] : k \in (0 - 1)..MaxTurnsArg}

PcmEmpty == <<>>

PcmAudio == <<"pcm">>

PrimaryTexts ==
    { None,
      <<>>,
      <<" ">>,
      <<"h", "i">>,
      <<"a", "b", "o">>,
      <<"b", "o">>,
      <<"b", "o", ".">>,
      <<"b", "o", " ", "a">>,
      <<"B", "O", " ", "g", "o">>,
      <<"b", "o", ",", " ", "g", "o", " ">>,
      <<"b", "o", " ", "h", "i", " ", "b", "o">>,
      <<"b", "o", " ", "a", " ", "b", "o", " ", "g", "o">> }

FollowupTexts ==
    { None,
      <<>>,
      <<" ", "?">>,
      <<"-", " ", "g", "o", " ">>,
      <<"g", "o">> }

Contexts == { <<>>, << << <<"b">>, <<"v">> >>, << <<"a">>, <<"w">> >> >> }

ResponseTexts == { <<"o", "k">>, <<" ">>, <<>> }

WavBytes == <<"wav">>

AudioFile == <<"assistant.wav">>

(***************************************************************************)
(* State.                                                                   *)
(***************************************************************************)
VARIABLES
    cfg,              \* command line and assistant configuration
    pc,               \* position of the single thread of control
    completed_turns,  \* run_loop's counter
    turn_note,        \* run_loop's turn_note / run_once's user_note
    activation,       \* last value returned by listen_for_activation
    pcm,              \* listener: the clip just recorded
    transcript,       \* listener: primary transcript
    followup_transcript, \* listener: follow-up transcript (None: no follow-up)
    context,          \* run_once: collected context
    prompt,           \* run_once: prompt
    response_text,    \* run_once: generated text
    wav_bytes,        \* run_once: synthesized audio
    audio_path,       \* run_once: audio_path
    result,           \* last AssistantTurnResult returned by run_once
    termination,      \* how run_loop / run_once ended
    exit_code,        \* how cli.run ended
    calls,            \* history: collaborator calls of the current turn
    hist,             \* history: the last HistLen loop events
    listens,          \* history: listen_for_activation calls
    sleeps,           \* history: completed time.sleep calls
    run_once_calls,   \* history: run_once calls
    clips,            \* history: clips recorded by the current listen call
    record_calls,     \* history: durations of the _record_clip calls of that call
    last_listen,      \* history: outcome of the last listen call that returned
    caught,           \* history: exceptions swallowed (stage names)
    failed,           \* history: the stage whose exception ended the run
    lib_pc,           \* position of the collector / prompt / registry call
    providers,        \* CompositeContextCollector.providers
    provider_index,   \* collect: providers merged so far
    merged,           \* collect: merged
    context_a,        \* build_user_prompt: a context mapping
    context_b,        \* build_user_prompt: the same pairs, inserted in another order
    note_in,          \* build_user_prompt: user_note
    prompt_a,         \* build_user_prompt(context_a, note_in)
    prompt_b,         \* build_user_prompt(context_b, note_in)
    factories,        \* ContextProviderRegistry._factories
    instantiated,     \* history: number of provider instances the factories created
    registered,       \* history: the register calls, in call order
    last_call,        \* history: the last registry call and its outcome
    response,         \* OpenAITextGenerator.generate: what responses.create gives
    generated         \* OpenAITextGenerator.generate: its outcome

assistantVars ==
    <<cfg, pc, completed_turns, turn_note, activation, pcm, transcript,
      followup_transcript, record_calls, context, prompt, response_text,
      wav_bytes, audio_path, result, termination, exit_code, calls, hist,
      listens, sleeps, run_once_calls, clips, last_listen, caught, failed>>

collectVars == <<providers, provider_index, merged>>

promptVars == <<context_a, context_b, note_in, prompt_a, prompt_b>>

registryVars == <<factories, instantiated, registered, last_call>>

clientVars == <<response, generated>>

libVars == <<lib_pc, collectVars, promptVars, registryVars, clientVars>>

vars == <<assistantVars, libVars>>

loopVars == <<completed_turns, turn_note>>

listenerVars == <<activation, pcm, transcript, followup_transcript, clips,
                  record_calls, last_listen>>

turnVars == <<context, prompt, response_text, wav_bytes, audio_path, calls>>

endVars == <<termination, exit_code, failed>>

countVars == <<listens, sleeps, run_once_calls>>

ListenerPcs == {"record_primary", "transcribe_primary", "record_followup",
                "transcribe_followup"}

TurnPcs == {"collect", "capture", "generate", "synthesize", "output",
            "turn_return"}

NoPrompt == <<>>

NoFailure == [stage |-> "none", kind |-> "none"]

Push(h, e) ==
    LET h2 == Append(h, e)
    IN  IF Len(h2) > HistLen THEN Tail(h2) ELSE h2

(***************************************************************************)
(* Init: the state once build_assistant has constructed the assistant.      *)
(* Fields that the chosen configuration never reads are fixed to one value. *)
(* Locals of a call that has returned are reset to their initial values.    *)
(***************************************************************************)
Configs ==
    { c \in [mode : {"once", "loop"},
             listener : BOOLEAN,
             user_note : StaticNotes,
             max_turns : MaxTurnsValues,
             enable_speech : BOOLEAN,
             synthesizer : BOOLEAN,
             audio_output : BOOLEAN,
             autoplay : BOOLEAN,
             cleanup_after_playback : BOOLEAN] :
        /\ c.mode = "once" => (~c.listener /\ c.max_turns = NoMaxTurns)
        /\ ~(c.enable_speech /\ c.synthesizer /\ c.audio_output)
              => (c.autoplay /\ c.cleanup_after_playback) }

InitAssistant ==
    /\ cfg \in Configs
    /\ pc = "start"
    /\ completed_turns = 0
    /\ turn_note = None
    /\ activation = NoneActivation
    /\ pcm = PcmEmpty
    /\ transcript = <<>>
    /\ followup_transcript = None
    /\ record_calls = <<>>
    /\ context = <<>>
    /\ prompt = NoPrompt
    /\ response_text = None
    /\ wav_bytes = None
    /\ audio_path = None
    /\ result = NoResult
    /\ termination = "none"
    /\ exit_code = "none"
    /\ calls = <<>>
    /\ hist = <<>>
    /\ listens = 0
    /\ sleeps = 0
    /\ run_once_calls = 0
    /\ clips = 0
    /\ last_listen = "none"
    /\ caught = {}
    /\ failed = NoFailure

NoCall ==
    [n |-> 0, op |-> "none", names |-> <<>>, raised |-> FALSE,
     value |-> <<>>, message |-> <<>>]

InitCollect ==
    /\ providers = <<>>
    /\ provider_index = 0
    /\ merged = <<>>

InitPrompt ==
    /\ context_a = <<>>
    /\ context_b = <<>>
    /\ note_in = None
    /\ prompt_a = <<>>
    /\ prompt_b = <<>>

InitRegistry ==
    /\ factories = <<>>
    /\ instantiated = 0
    /\ registered = <<>>
    /\ last_call = NoCall

NoResponse == [raises |-> FALSE, output_text |-> None, output |-> <<>>]

NoOutcome == [raised |-> FALSE, text |-> None]

InitClient ==
    /\ response = NoResponse
    /\ generated = NoOutcome

Init ==
    /\ InitAssistant
    /\ lib_pc = "idle"
    /\ InitCollect
    /\ InitPrompt
    /\ InitRegistry
    /\ InitClient

(***************************************************************************)
(* Exception propagation.  run_once and run_loop contain no try statement,  *)
(* so whatever a stage raises leaves them; cli.run catches                  *)
(* KeyboardInterrupt around run_loop only.                                  *)
(***************************************************************************)
CliExit(mode, kind) ==
    IF mode = "loop" /\ kind = "KeyboardInterrupt" THEN "0" ELSE "traceback"

Propagate(stage, kind) ==
    /\ pc' = "done"
    /\ termination' = kind
    /\ failed' = [stage |-> stage, kind |-> kind]
    /\ exit_code' = CliExit(cfg.mode, kind)

(***************************************************************************)
(* The call of run_once: a new turn starts.                                 *)
(***************************************************************************)
BeginTurn ==
    /\ pc' = "collect"
    /\ run_once_calls' = run_once_calls + 1
    /\ calls' = <<>>
    /\ result' = NoResult
    /\ caught' = {}
    /\ hist' = Push(hist, "turn")

(***************************************************************************)
(* cli.run: dispatch to run_once (--once) or run_loop.                      *)
(***************************************************************************)
Run ==
    /\ pc = "start"
    /\ IF cfg.mode = "once"
       THEN /\ turn_note' = cfg.user_note
            /\ BeginTurn
       ELSE /\ pc' = "loop_top"
            /\ UNCHANGED <<turn_note, run_once_calls, calls, result, hist,
                           caught>>
    /\ UNCHANGED <<cfg, completed_turns, listenerVars, context, prompt,
                   response_text, wav_bytes, audio_path, endVars, listens,
                   sleeps>>
    /\ UNCHANGED libVars

(***************************************************************************)
(* run_loop: top of an iteration (turn_note := user_note, then either the   *)
(* call of listen_for_activation or the call of run_once).                  *)
(***************************************************************************)
RunLoopIteration(listens_) ==
    /\ pc = "loop_top"
    /\ completed_turns < MaxCompleted
    /\ turn_note' = cfg.user_note
    /\ IF cfg.listener
       THEN /\ pc' = "record_primary"
            /\ listens' = listens_
            /\ clips' = 0
            /\ record_calls' = <<>>
            /\ caught' = {}
            /\ hist' = Push(hist, "listen")
            /\ UNCHANGED <<run_once_calls, calls, result>>
       ELSE /\ BeginTurn
            /\ UNCHANGED <<listens, clips, record_calls>>
    /\ UNCHANGED <<cfg, completed_turns, activation, pcm, transcript,
                   followup_transcript, last_listen, context, prompt,
                   response_text, wav_bytes, audio_path, endVars, sleeps>>
    /\ UNCHANGED libVars

RunLoopIter ==
    /\ cfg.listener => listens < MaxListens
    /\ RunLoopIteration(listens + 1)

(***************************************************************************)
(* listen_for_activation.                                                   *)
(***************************************************************************)
ListenerCatches_Nothing(kind) == FALSE

ListenerCatches_BaseException(kind) == kind \in {"Exception", "KeyboardInterrupt"}

ListenerCatches(kind) == kind = "Exception"

FollowupCatches_Nothing(kind) == FALSE

FollowupCatches(kind) == kind = "Exception"

ListenSeconds == <<"listen_seconds">>

FollowupListenSeconds == <<"followup_listen_seconds">>

record_clip_seconds_Default(duration_seconds) == ListenSeconds

record_clip_seconds(duration_seconds) ==
    IF duration_seconds /= None THEN duration_seconds ELSE ListenSeconds

transcribe(pcm_audio, text) ==
    IF pcm_audio = PcmEmpty THEN <<>>
    ELSE IF Truthy(text) THEN Strip(text) ELSE <<>>

ListenOutcome(value) ==
    IF value.none THEN "no_activation"
    ELSE IF value.user_note = None THEN "no_note"
    ELSE "note"

ListenReturn(value) ==
    /\ activation' = value
    /\ last_listen' = ListenOutcome(value)
    /\ pc' = "listened"
    /\ pcm' = PcmEmpty
    /\ UNCHANGED endVars

ListenRaise(stage, kind) ==
    /\ Propagate(stage, kind)
    /\ UNCHANGED <<activation, pcm, transcript, followup_transcript,
                   last_listen>>

ListenContinue(target, pcm_audio) ==
    /\ pc' = target
    /\ pcm' = pcm_audio
    /\ UNCHANGED <<activation, last_listen, endVars>>

RecordPrimary ==
    /\ pc = "record_primary"
    /\ record_calls' = Append(record_calls, record_clip_seconds(None))
    /\ \E r \in {PcmEmpty, PcmAudio} \cup Raised :
          IF r \in Raised
          THEN /\ IF ListenerCatches(r[1])
                  THEN /\ ListenReturn(NoneActivation)
                       /\ caught' = caught \cup {"record_primary"}
                       /\ UNCHANGED <<transcript, followup_transcript>>
                  ELSE /\ ListenRaise("record_primary", r[1])
                       /\ UNCHANGED caught
               /\ UNCHANGED clips
          ELSE /\ ListenContinue("transcribe_primary", r)
               /\ clips' = clips + 1
               /\ UNCHANGED <<caught, transcript, followup_transcript>>
    /\ UNCHANGED <<cfg, loopVars, turnVars, result, hist, countVars>>
    /\ UNCHANGED libVars

AfterPrimaryTranscript(t) ==
    /\ transcript' = t
    /\ UNCHANGED followup_transcript
    /\ IF ~Truthy(t) \/ ~PatternSearch(t)
       THEN ListenReturn(NoneActivation)
       ELSE LET user_note == extract_user_note_after_wake_word(t)
            IN  IF user_note = None
                THEN ListenContinue("record_followup", PcmEmpty)
                ELSE ListenReturn(VoiceActivation(t, WakeWord, user_note))

TranscribePrimaryOf(texts) ==
    /\ pc = "transcribe_primary"
    /\ \/ /\ pcm = PcmEmpty
          /\ \E t \in {transcribe(pcm, None)} : AfterPrimaryTranscript(t)
          /\ UNCHANGED caught
       \/ /\ pcm /= PcmEmpty
          /\ \E r \in texts \cup Raised :
                IF r \in Raised
                THEN IF ListenerCatches(r[1])
                     THEN /\ ListenReturn(NoneActivation)
                          /\ caught' = caught \cup {"transcribe_primary"}
                          /\ UNCHANGED <<transcript, followup_transcript>>
                     ELSE /\ ListenRaise("transcribe_primary", r[1])
                          /\ UNCHANGED caught
                ELSE /\ \E t \in {transcribe(pcm, r)} : AfterPrimaryTranscript(t)
                     /\ UNCHANGED caught
    /\ UNCHANGED <<cfg, loopVars, clips, record_calls, turnVars, result, hist,
                   countVars>>
    /\ UNCHANGED libVars

TranscribePrimary == TranscribePrimaryOf(PrimaryTexts)

FollowupResult_NoneWithoutNote(transcript_, followup_transcript_) ==
    LET followup_note == clean_user_note(followup_transcript_)
    IN  IF Truthy(followup_note)
        THEN VoiceActivation(
                 Strip(transcript_ \o <<" ">> \o followup_transcript_),
                 WakeWord, followup_note)
        ELSE NoneActivation

FollowupResult(transcript_, followup_transcript_) ==
    LET followup_note == clean_user_note(followup_transcript_)
    IN  IF Truthy(followup_note)
        THEN VoiceActivation(
                 Strip(transcript_ \o <<" ">> \o followup_transcript_),
                 WakeWord, followup_note)
        ELSE VoiceActivation(transcript_, WakeWord, None)

AfterFollowup(followup_transcript_) ==
    /\ followup_transcript' = followup_transcript_
    /\ UNCHANGED transcript
    /\ ListenReturn(FollowupResult(transcript, followup_transcript_))

RecordFollowup ==
    /\ pc = "record_followup"
    /\ record_calls' =
          Append(record_calls, record_clip_seconds(FollowupListenSeconds))
    /\ \E r \in {PcmEmpty, PcmAudio} \cup Raised :
          IF r \in Raised
          THEN /\ IF FollowupCatches(r[1])
                  THEN /\ AfterFollowup(<<>>)
                       /\ caught' = caught \cup {"record_followup"}
                  ELSE /\ ListenRaise("record_followup", r[1])
                       /\ UNCHANGED caught
               /\ UNCHANGED clips
          ELSE /\ ListenContinue("transcribe_followup", r)
               /\ clips' = clips + 1
               /\ UNCHANGED <<caught, transcript, followup_transcript>>
    /\ UNCHANGED <<cfg, loopVars, turnVars, result, hist, countVars>>
    /\ UNCHANGED libVars

TranscribeFollowupOf(texts) ==
    /\ pc = "transcribe_followup"
    /\ \/ /\ pcm = PcmEmpty
          /\ \E t \in {transcribe(pcm, None)} : AfterFollowup(t)
          /\ UNCHANGED caught
       \/ /\ pcm /= PcmEmpty
          /\ \E r \in texts \cup Raised :
                IF r \in Raised
                THEN IF FollowupCatches(r[1])
                     THEN /\ AfterFollowup(<<>>)
                          /\ caught' = caught \cup {"transcribe_followup"}
                     ELSE /\ ListenRaise("transcribe_followup", r[1])
                          /\ UNCHANGED caught
                ELSE /\ \E t \in {transcribe(pcm, r)} : AfterFollowup(t)
                     /\ UNCHANGED caught
    /\ UNCHANGED <<cfg, loopVars, clips, record_calls, turnVars, result, hist,
                   countVars>>
    /\ UNCHANGED libVars

TranscribeFollowup == TranscribeFollowupOf(FollowupTexts)

(***************************************************************************)
(* run_loop: what follows the return of listen_for_activation.  The         *)
(* activation is not read again once turn_note is computed; the listener's  *)
(* transcripts, kept until here, are dropped with it.                       *)
(***************************************************************************)
NoActivationTarget_Sleep == "sleep"

NoActivationTarget == "loop_top"

NoNoteTarget == "loop_top"

TurnNoteFor_StaticFirst(activation_note, static_note) ==
    PyOr(static_note, activation_note)

TurnNoteFor(activation_note, static_note) == PyOr(activation_note, static_note)

HandleActivation ==
    /\ pc = "listened"
    /\ activation' = NoneActivation
    /\ transcript' = <<>>
    /\ followup_transcript' = None
    /\ IF activation.none
       THEN /\ pc' = NoActivationTarget
            /\ turn_note' = None
            /\ UNCHANGED <<run_once_calls, calls, result, hist, caught>>
       ELSE LET note == TurnNoteFor(activation.user_note, cfg.user_note)
            IN  IF note = None
                THEN /\ pc' = NoNoteTarget
                     /\ turn_note' = None
                     /\ UNCHANGED <<run_once_calls, calls, result, hist,
                                    caught>>
                ELSE /\ turn_note' = note
                     /\ BeginTurn
    /\ UNCHANGED <<cfg, completed_turns, pcm, clips, record_calls, last_listen,
                   context, prompt, response_text, wav_bytes, audio_path,
                   endVars, listens, sleeps>>
    /\ UNCHANGED libVars

(***************************************************************************)
(* run_once.                                                                *)
(***************************************************************************)
RunOnceCatches_Generate(stage, kind) ==
    stage = "generate" /\ kind = "Exception"

RunOnceCatches_Upstream(stage, kind) ==
    stage \in {"collect", "capture"} /\ kind = "Exception"

RunOnceCatches(stage, kind) == FALSE

SpeechApplies_NoSinkCheck(enable_speech, synthesizer, audio_output) ==
    enable_speech /\ synthesizer

SpeechApplies(enable_speech, synthesizer, audio_output) ==
    enable_speech /\ synthesizer /\ audio_output

AfterGenerate_SkipSynthesize ==
    IF SpeechApplies(cfg.enable_speech, cfg.synthesizer, cfg.audio_output)
    THEN "output"
    ELSE "turn_return"

AfterGenerate ==
    IF SpeechApplies(cfg.enable_speech, cfg.synthesizer, cfg.audio_output)
    THEN "synthesize"
    ELSE "turn_return"

StageRaise(stage, site, kind, fallbackPc) ==
    IF RunOnceCatches(stage, kind)
    THEN /\ pc' = fallbackPc
         /\ caught' = caught \cup {site}
         /\ UNCHANGED endVars
    ELSE /\ Propagate(site, kind)
         /\ UNCHANGED caught

Collect ==
    /\ pc = "collect"
    /\ calls' = Append(calls, "collect")
    /\ \E r \in Contexts \cup Raised :
          IF r \in Raised
          THEN /\ StageRaise("collect", "collect", r[1], "capture")
               /\ UNCHANGED <<context, prompt>>
          ELSE /\ context' = r
               /\ prompt' = build_user_prompt(r, turn_note)
               /\ pc' = "capture"
               /\ UNCHANGED <<endVars, caught>>
    /\ UNCHANGED <<cfg, loopVars, listenerVars, response_text, wav_bytes,
                   audio_path, result, hist, countVars>>
    /\ UNCHANGED libVars

Capture ==
    /\ pc = "capture"
    /\ calls' = Append(calls, "capture")
    /\ \E r \in {<<"screen">>} \cup Raised :
          IF r \in Raised
          THEN StageRaise("capture", "capture", r[1], "generate")
          ELSE /\ pc' = "generate"
               /\ UNCHANGED <<endVars, caught>>
    /\ UNCHANGED <<cfg, loopVars, listenerVars, context, prompt,
                   response_text, wav_bytes, audio_path, result, hist,
                   countVars>>
    /\ UNCHANGED libVars

Generate ==
    /\ pc = "generate"
    /\ calls' = Append(calls, "generate")
    /\ audio_path' = None
    /\ \E r \in ResponseTexts \cup Raised :
          IF r \in Raised
          THEN /\ StageRaise("generate", "generate", r[1], AfterGenerate)
               /\ response_text' = IF RunOnceCatches("generate", r[1])
                                   THEN <<>>
                                   ELSE response_text
          ELSE /\ response_text' = r
               /\ pc' = AfterGenerate
               /\ UNCHANGED <<endVars, caught>>
    /\ UNCHANGED <<cfg, loopVars, listenerVars, context, prompt, wav_bytes,
                   result, hist, countVars>>
    /\ UNCHANGED libVars

(***************************************************************************)
(* ElevenLabsSpeechSynthesizer.synthesize, called from run_once.            *)
(***************************************************************************)
SynthesizeRejects_NoStrip(text) == ~Truthy(text)

SynthesizeRejects(text) == ~Truthy(Strip(text))

Synthesize ==
    /\ pc = "synthesize"
    /\ LET rejected == SynthesizeRejects(response_text)
       IN  /\ calls' = calls \o <<"synthesize">>
                          \o (IF rejected THEN <<>> ELSE <<"synthesize.request">>)
           /\ \E r \in {WavBytes} \cup Raised :
                 IF rejected \/ r \in Raised
                 THEN /\ StageRaise("synthesize", "synthesize",
                                    IF rejected THEN "Exception" ELSE r[1],
                                    "turn_return")
                      /\ UNCHANGED wav_bytes
                 ELSE /\ wav_bytes' = r
                      /\ pc' = "output"
                      /\ UNCHANGED <<endVars, caught>>
    /\ UNCHANGED <<cfg, loopVars, listenerVars, context, prompt,
                   response_text, audio_path, result, hist, countVars>>
    /\ UNCHANGED libVars

(***************************************************************************)
(* LocalAudioOutput.output, called from run_once.                           *)
(***************************************************************************)
SafePlayCatches(kind) == kind = "Exception"

SafeDeleteCatches_Nothing(kind) == FALSE

SafeDeleteCatches(kind) == kind = "Exception"

OutputReturn(autoplay, cleanup_after_playback) ==
    IF autoplay /\ cleanup_after_playback THEN None ELSE AudioFile

OutputEscapes(mk, wr, pl, dl) ==
    IF mk /= "ok" THEN <<"output.mkdir", mk>>
    ELSE IF wr /= "ok" THEN <<"output.write", wr>>
    ELSE IF cfg.autoplay /\ pl /= "ok" /\ ~SafePlayCatches(pl)
         THEN <<"output.play", pl>>
    ELSE IF cfg.autoplay /\ cfg.cleanup_after_playback /\ dl /= "ok"
            /\ ~SafeDeleteCatches(dl)
         THEN <<"output.delete", dl>>
    ELSE <<>>

OutputSwallows(mk, wr, pl, dl) ==
    IF mk /= "ok" \/ wr /= "ok" \/ ~cfg.autoplay THEN {}
    ELSE (IF pl /= "ok" /\ SafePlayCatches(pl) THEN {"output.play"} ELSE {})
         \cup
         (IF (pl = "ok" \/ SafePlayCatches(pl)) /\ cfg.cleanup_after_playback
             /\ dl /= "ok" /\ SafeDeleteCatches(dl)
          THEN {"output.delete"} ELSE {})

AudioOut ==
    /\ pc = "output"
    /\ calls' = Append(calls, "output")
    /\ \E mk, wr, pl, dl \in {"ok"} \cup ExcKinds :
          LET esc == OutputEscapes(mk, wr, pl, dl)
          IN  IF esc /= <<>>
              THEN /\ IF RunOnceCatches("output", esc[2])
                      THEN /\ pc' = "turn_return"
                           /\ caught' = caught \cup {esc[1]}
                                          \cup OutputSwallows(mk, wr, pl, dl)
                           /\ UNCHANGED endVars
                      ELSE /\ Propagate(esc[1], esc[2])
                           /\ caught' = caught \cup OutputSwallows(mk, wr, pl, dl)
                   /\ UNCHANGED audio_path
              ELSE /\ audio_path' = OutputReturn(cfg.autoplay,
                                                 cfg.cleanup_after_playback)
                   /\ caught' = caught \cup OutputSwallows(mk, wr, pl, dl)
                   /\ pc' = "turn_return"
                   /\ UNCHANGED endVars
    /\ UNCHANGED <<cfg, loopVars, listenerVars, context, prompt,
                   response_text, wav_bytes, result, hist, countVars>>
    /\ UNCHANGED libVars

(***************************************************************************)
(* Return of run_once, and what its caller does with the result: cli.run    *)
(* prints it and exits; run_loop counts the turn, then breaks or sleeps.    *)
(***************************************************************************)
ReachedMaxTurns_OffByOne(max_turns, completed) ==
    max_turns.given /\ completed > max_turns.n

ReachedMaxTurns_Never(max_turns, completed) == FALSE

ReachedMaxTurns_PositiveOnly(max_turns, completed) ==
    max_turns.given /\ max_turns.n > 0 /\ completed >= max_turns.n

ReachedMaxTurns(max_turns, completed) ==
    max_turns.given /\ completed >= max_turns.n

AfterTurnTarget_NoSleep(reached) == IF reached THEN "done" ELSE "loop_top"

AfterTurnTarget(reached) == IF reached THEN "done" ELSE "sleep"

TurnReturn ==
    /\ pc = "turn_return"
    /\ result' = AssistantTurnResult(prompt, response_text, context, audio_path)
    /\ turn_note' = None
    /\ context' = <<>>
    /\ prompt' = NoPrompt
    /\ response_text' = None
    /\ wav_bytes' = None
    /\ audio_path' = None
    /\ IF cfg.mode = "once"
       THEN /\ pc' = "done"
            /\ termination' = "returned"
            /\ exit_code' = "0"
            /\ hist' = Push(hist, "turn_done")
            /\ UNCHANGED completed_turns
       ELSE LET target == AfterTurnTarget(
                              ReachedMaxTurns(cfg.max_turns, completed_turns + 1))
            IN  /\ completed_turns' = completed_turns + 1
                /\ pc' = target
                /\ IF target = "done"
                   THEN /\ termination' = "returned"
                        /\ exit_code' = "0"
                        /\ hist' = Push(Push(hist, "turn_done"), "return")
                   ELSE /\ hist' = Push(hist, "turn_done")
                        /\ UNCHANGED <<termination, exit_code>>
    /\ UNCHANGED <<cfg, listenerVars, calls, failed, countVars, caught>>
    /\ UNCHANGED libVars

Sleep ==
    /\ pc = "sleep"
    /\ \E r \in {"ok"} \cup ExcKinds :
          IF r = "ok"
          THEN /\ pc' = "loop_top"
               /\ sleeps' = sleeps + 1
               /\ hist' = Push(hist, "sleep")
               /\ result' = NoResult
               /\ UNCHANGED endVars
          ELSE /\ Propagate("sleep", r)
               /\ UNCHANGED <<sleeps, hist, result>>
    /\ UNCHANGED <<cfg, loopVars, listenerVars, turnVars, listens,
                   run_once_calls, caught>>
    /\ UNCHANGED libVars

Next ==
    \/ Run
    \/ RunLoopIter
    \/ RecordPrimary
    \/ TranscribePrimary
    \/ RecordFollowup
    \/ TranscribeFollowup
    \/ HandleActivation
    \/ Collect
    \/ Capture
    \/ Generate
    \/ Synthesize
    \/ AudioOut
    \/ TurnReturn
    \/ Sleep

Spec == Init /\ [][Next]_vars

(***************************************************************************)
(* The listener under every short transcript: one configuration (listener   *)
(* on, no static note, one turn, no speech) and, as transcription results,  *)
(* every text over TextChars up to a length bound.                          *)
(***************************************************************************)
TextChars == {"b", "o", "O", " ", "."}

RECURSIVE TextsOfLen(_)
TextsOfLen(n) ==
    IF n = 0 THEN {<<>>}
    ELSE {<<c>> \o t : c \in TextChars, t \in TextsOfLen(n - 1)}

TextsUpTo(n) == UNION {TextsOfLen(k) : k \in 0..n}

ListenerPrimaryTexts == PrimaryTexts \cup TextsUpTo(MaxPrimaryLen)

ListenerFollowupTexts == FollowupTexts \cup TextsUpTo(MaxFollowupLen)

ListenerCfg ==
    [mode |-> "loop", listener |-> TRUE, user_note |-> None,
     max_turns |-> [given |-> TRUE, n |-> 1], enable_speech |-> FALSE,
     synthesizer |-> FALSE, audio_output |-> FALSE, autoplay |-> TRUE,
     cleanup_after_playback |-> TRUE]

InitListener == Init /\ cfg = ListenerCfg

ListenerTranscribePrimary == TranscribePrimaryOf(ListenerPrimaryTexts)

ListenerTranscribeFollowup == TranscribeFollowupOf(ListenerFollowupTexts)

NextListener ==
    \/ Run
    \/ RunLoopIter
    \/ RecordPrimary
    \/ ListenerTranscribePrimary
    \/ RecordFollowup
    \/ ListenerTranscribeFollowup
    \/ HandleActivation
    \/ Collect
    \/ Capture
    \/ Generate
    \/ TurnReturn

SpecListener == InitListener /\ [][NextListener]_vars

(***************************************************************************)
(* run_loop running forever: the count of listen calls saturates, so that   *)
(* the loop can go round without end; every call that is made returns or    *)
(* raises (weak fairness of each step), and the listener returns an         *)
(* activation carrying a usable note again and again (strong fairness).     *)
(***************************************************************************)
InitLive == Init /\ cfg.mode = "loop"

LiveLoopIter ==
    RunLoopIteration(IF listens < MaxListens THEN listens + 1 ELSE listens)

NextLive ==
    \/ Run
    \/ LiveLoopIter
    \/ RecordPrimary
    \/ TranscribePrimary
    \/ RecordFollowup
    \/ TranscribeFollowup
    \/ HandleActivation
    \/ Collect
    \/ Capture
    \/ Generate
    \/ Synthesize
    \/ AudioOut
    \/ TurnReturn
    \/ Sleep

SpecLive ==
    /\ InitLive
    /\ [][NextLive]_vars
    /\ WF_vars(NextLive)

(***************************************************************************)
(* CompositeContextCollector.collect.  A provider is its name and the       *)
(* mapping its collect() returns; a value is a str or, against the          *)
(* annotation, an int, which str(value) renders in decimal.                 *)
(***************************************************************************)
MaxProviders == 2

MaxFields == 2

StrValue(s) == [type |-> "str", s |-> s, n |-> 0]

IntValue(n) == [type |-> "int", s |-> <<>>, n |-> n]

Digit(n) == <<"0", "1", "2", "3", "4", "5", "6", "7", "8", "9">>[n + 1]

RECURSIVE PyStrInt(_)
PyStrInt(n) ==
    IF n < 10 THEN <<Digit(n)>>
    ELSE PyStrInt(n \div 10) \o <<Digit(n % 10)>>

PyStr(value) == IF value.type = "str" THEN value.s ELSE PyStrInt(value.n)

DictHas(d, k) == \E i \in 1..Len(d) : d[i][1] = k

DictSet_KeepFirst(d, k, v) ==
    IF DictHas(d, k) THEN d ELSE Append(d, <<k, v>>)

DictSet(d, k, v) ==
    IF DictHas(d, k)
    THEN [i \in 1..Len(d) |-> IF d[i][1] = k THEN <<k, v>> ELSE d[i]]
    ELSE Append(d, <<k, v>>)

CompositeKey(name, key) == name \o <<".">> \o key

RECURSIVE MergeValues(_, _, _)
MergeValues(merged_, name, values) ==
    IF values = <<>> THEN merged_
    ELSE MergeValues(
             DictSet(merged_, CompositeKey(name, Head(values)[1]),
                     PyStr(Head(values)[2])),
             name, Tail(values))

ProviderNames == { <<"a">>, <<"a", ".", "b">> }

FieldNames == { <<"c">>, <<"b", ".", "c">> }

ProviderValues == { StrValue(<<"v">>), StrValue(<<"1">>), IntValue(1) }

DistinctKeys(d) == \A i, j \in 1..Len(d) : d[i][1] = d[j][1] => i = j

ProviderMappings ==
    { d \in UNION { [1..n -> FieldNames \X ProviderValues] : n \in 0..MaxFields } :
          DistinctKeys(d) }

Providers == [name : ProviderNames, values : ProviderMappings]

ProviderLists == UNION { [1..n -> Providers] : n \in 0..MaxProviders }

CollectorCfg ==
    [mode |-> "once", listener |-> FALSE, user_note |-> None,
     max_turns |-> NoMaxTurns, enable_speech |-> FALSE,
     synthesizer |-> FALSE, audio_output |-> FALSE,
     autoplay |-> TRUE, cleanup_after_playback |-> TRUE]

InitLibrary == InitAssistant /\ cfg = CollectorCfg

InitCollector ==
    /\ InitLibrary
    /\ lib_pc = "collect"
    /\ providers \in ProviderLists
    /\ provider_index = 0
    /\ merged = <<>>
    /\ InitPrompt
    /\ InitRegistry
    /\ InitClient

CollectProvider ==
    /\ lib_pc = "collect"
    /\ provider_index < Len(providers)
    /\ LET provider == providers[provider_index + 1]
       IN  merged' = MergeValues(merged, provider.name, provider.values)
    /\ provider_index' = provider_index + 1
    /\ UNCHANGED <<assistantVars, lib_pc, providers, promptVars, registryVars, clientVars>>

CollectReturn ==
    /\ lib_pc = "collect"
    /\ provider_index = Len(providers)
    /\ lib_pc' = "collected"
    /\ UNCHANGED <<assistantVars, collectVars, promptVars, registryVars, clientVars>>

NextCollector == CollectProvider \/ CollectReturn

SpecCollector == InitCollector /\ [][NextCollector]_vars

(***************************************************************************)
(* build_user_prompt on two mappings that hold the same pairs.              *)
(***************************************************************************)
MaxItems == 3

PromptKeys == { <<"a">>, <<"a", ".", "b">>, <<"a", "1">>, <<"b">> }

PromptValues == { <<"v">>, <<"w">> }

PromptNotes ==
    { None, <<>>, <<" ">>, <<" ", " ">>, <<"h", "i", " ">>,
      <<" ", "h", " ", "i", " ">> }

PromptContexts ==
    { d \in UNION { [1..n -> PromptKeys \X PromptValues] : n \in 0..MaxItems } :
          DistinctKeys(d) }

Items(d) == { d[i] : i \in 1..Len(d) }

Reorderings(d) == { e \in [1..Len(d) -> Items(d)] : Items(e) = Items(d) }

InitPromptBuilder ==
    /\ InitLibrary
    /\ lib_pc = "build_a"
    /\ InitCollect
    /\ context_a \in PromptContexts
    /\ context_b \in Reorderings(context_a)
    /\ note_in \in PromptNotes
    /\ prompt_a = <<>>
    /\ prompt_b = <<>>
    /\ InitRegistry
    /\ InitClient

BuildPromptA ==
    /\ lib_pc = "build_a"
    /\ prompt_a' = build_user_prompt(context_a, note_in)
    /\ lib_pc' = "build_b"
    /\ UNCHANGED <<assistantVars, collectVars, context_a, context_b, note_in,
                   prompt_b, registryVars, clientVars>>

BuildPromptB ==
    /\ lib_pc = "build_b"
    /\ prompt_b' = build_user_prompt(context_b, note_in)
    /\ lib_pc' = "built"
    /\ UNCHANGED <<assistantVars, collectVars, context_a, context_b, note_in,
                   prompt_a, registryVars, clientVars>>

NextPromptBuilder == BuildPromptA \/ BuildPromptB

SpecPromptBuilder == InitPromptBuilder /\ [][NextPromptBuilder]_vars

(***************************************************************************)
(* ContextProviderRegistry.  A factory is an identifier; calling it makes   *)
(* a new provider instance, numbered by the count of instances so far.      *)
(***************************************************************************)
MaxRegistrations == 2

MaxRegistryCalls == 2

MaxNames == 2

RegistryNames == { <<"a">>, <<"a", "b">>, <<"b">> }

Factories == { <<"F1">>, <<"F2">> }

NameLists == UNION { [1..n -> RegistryNames] : n \in 0..MaxNames }

DictGet(d, k) == d[CHOOSE i \in 1..Len(d) : d[i][1] = k][2]

DictKeys(d) == [i \in 1..Len(d) |-> d[i][1]]

RECURSIVE SortedNamesInsert(_, _)
SortedNamesInsert(name, sorted) ==
    IF sorted = <<>> THEN <<name>>
    ELSE IF ~StrLess(Head(sorted), name) THEN <<name>> \o sorted
    ELSE <<Head(sorted)>> \o SortedNamesInsert(name, Tail(sorted))

RECURSIVE SortedNames(_)
SortedNames(names) ==
    IF names = <<>> THEN <<>>
    ELSE SortedNamesInsert(Head(names), SortedNames(Tail(names)))

AvailableNames_Unsorted(factories_) == Join(<<",", " ">>, DictKeys(factories_))

AvailableNames(factories_) ==
    Join(<<",", " ">>, SortedNames(DictKeys(factories_)))

UnknownProviderMessage(factories_, name) ==
    <<"Unknown context provider ", "'">> \o name
        \o <<"'", ".", " Available: ">> \o AvailableNames(factories_)

Instance(factory, serial) == [factory |-> factory, serial |-> serial]

create(factories_, name, count) ==
    IF ~DictHas(factories_, name)
    THEN [raised |-> TRUE, value |-> <<>>,
          message |-> UnknownProviderMessage(factories_, name),
          count |-> count]
    ELSE [raised |-> FALSE,
          value |-> <<Instance(DictGet(factories_, name), count + 1)>>,
          message |-> <<>>, count |-> count + 1]

RECURSIVE create_many_Reversed(_, _, _)
create_many_Reversed(factories_, names, count) ==
    IF names = <<>>
    THEN [raised |-> FALSE, value |-> <<>>, message |-> <<>>, count |-> count]
    ELSE LET first == create(factories_, Head(names), count)
         IN  IF first.raised THEN first
             ELSE LET rest == create_many_Reversed(factories_, Tail(names),
                                                   first.count)
                  IN  IF rest.raised THEN rest
                      ELSE [rest EXCEPT !.value = rest.value \o first.value]

RECURSIVE create_many(_, _, _)
create_many(factories_, names, count) ==
    IF names = <<>>
    THEN [raised |-> FALSE, value |-> <<>>, message |-> <<>>, count |-> count]
    ELSE LET first == create(factories_, Head(names), count)
         IN  IF first.raised THEN first
             ELSE LET rest == create_many(factories_, Tail(names), first.count)
                  IN  IF rest.raised THEN rest
                      ELSE [rest EXCEPT !.value = first.value \o rest.value]

InitRegistrySpec ==
    /\ InitLibrary
    /\ lib_pc = "registry"
    /\ InitCollect
    /\ InitPrompt
    /\ InitRegistry
    /\ InitClient

CallRecord(op, names, outcome) ==
    [n |-> last_call.n + 1, op |-> op, names |-> names,
     raised |-> outcome.raised, value |-> outcome.value,
     message |-> outcome.message]

Register ==
    /\ lib_pc = "registry"
    /\ Len(registered) < MaxRegistrations
    /\ \E name \in RegistryNames, factory \in Factories :
          /\ factories' = DictSet(factories, name, factory)
          /\ registered' = Append(registered, <<name, factory>>)
          /\ last_call' = [n |-> last_call.n + 1, op |-> "register",
                           names |-> <<name>>, raised |-> FALSE,
                           value |-> <<>>, message |-> <<>>]
    /\ UNCHANGED <<assistantVars, lib_pc, collectVars, promptVars, clientVars,
                   instantiated>>

Create ==
    /\ lib_pc = "registry"
    /\ last_call.n - Len(registered) < MaxRegistryCalls
    /\ \E name \in RegistryNames :
          LET outcome == create(factories, name, instantiated)
          IN  /\ instantiated' = outcome.count
              /\ last_call' = CallRecord("create", <<name>>, outcome)
    /\ UNCHANGED <<assistantVars, lib_pc, collectVars, promptVars, clientVars,
                   factories,
                   registered>>

CreateMany ==
    /\ lib_pc = "registry"
    /\ last_call.n - Len(registered) < MaxRegistryCalls
    /\ \E names \in NameLists :
          LET outcome == create_many(factories, names, instantiated)
          IN  /\ instantiated' = outcome.count
              /\ last_call' = CallRecord("create_many", names, outcome)
    /\ UNCHANGED <<assistantVars, lib_pc, collectVars, promptVars, clientVars,
                   factories,
                   registered>>

NextRegistry == Register \/ Create \/ CreateMany

SpecRegistry == InitRegistrySpec /\ [][NextRegistry]_vars

(***************************************************************************)
(* OpenAITextGenerator.generate.  A response is its output_text attribute   *)
(* and its output list; an output item is the list of the text attributes   *)
(* of its content items (None when the attribute is missing).               *)
(***************************************************************************)
MaxOutputItems == 2

MaxContentItems == 2

OutputTexts == { None, <<>>, <<" ">>, <<" ", "o", "k">> }

ContentTexts == { None, <<" ">>, <<"a", " ">> }

ContentLists == UNION { [1..n -> ContentTexts] : n \in 0..MaxContentItems }

OutputLists == UNION { [1..n -> ContentLists] : n \in 0..MaxOutputItems }

Responses ==
    [raises : {FALSE}, output_text : OutputTexts, output : OutputLists]
        \cup { [raises |-> TRUE, output_text |-> None, output |-> <<>>] }

RECURSIVE ContentChunks(_)
ContentChunks(content_items) ==
    IF content_items = <<>> THEN <<>>
    ELSE (IF Truthy(Head(content_items))
          THEN <<Strip(Head(content_items))>> ELSE <<>>)
             \o ContentChunks(Tail(content_items))

RECURSIVE OutputChunks(_)
OutputChunks(output) ==
    IF output = <<>> THEN <<>>
    ELSE ContentChunks(Head(output)) \o OutputChunks(Tail(output))

RECURSIVE NonEmptyChunks(_)
NonEmptyChunks(chunks) ==
    IF chunks = <<>> THEN <<>>
    ELSE (IF Truthy(Head(chunks)) THEN <<Head(chunks)>> ELSE <<>>)
             \o NonEmptyChunks(Tail(chunks))

extract_text(response_) ==
    IF Truthy(response_.output_text) /\ Truthy(Strip(response_.output_text))
    THEN [raised |-> FALSE, text |-> Strip(response_.output_text)]
    ELSE LET chunks == OutputChunks(response_.output)
         IN  IF chunks /= <<>>
             THEN [raised |-> FALSE,
                   text |-> Join(<<" ">>, NonEmptyChunks(chunks))]
             ELSE [raised |-> TRUE, text |-> None]

InitGenerator ==
    /\ InitLibrary
    /\ lib_pc = "generate"
    /\ InitCollect
    /\ InitPrompt
    /\ InitRegistry
    /\ response \in Responses
    /\ generated = NoOutcome

GenerateText ==
    /\ lib_pc = "generate"
    /\ generated' = IF response.raises
                    THEN [raised |-> TRUE, text |-> None]
                    ELSE extract_text(response)
    /\ lib_pc' = "generated"
    /\ UNCHANGED <<assistantVars, collectVars, promptVars, registryVars,
                   response>>

NextGenerator == GenerateText

SpecGenerator == InitGenerator /\ [][NextGenerator]_vars

TypeOK ==
    /\ cfg \in Configs
    /\ pc \in {"start", "loop_top", "listened", "sleep", "done"}
                 \cup ListenerPcs \cup TurnPcs
    /\ completed_turns \in 0..MaxCompleted
    /\ listens \in 0..MaxListens
    /\ termination \in {"none", "returned"} \cup ExcKinds
    /\ exit_code \in {"none", "0", "traceback"}
    /\ Len(hist) <= HistLen
    /\ last_listen \in {"none", "no_activation", "no_note", "note"}

(***************************************************************************)
(* Helpers for the properties.                                              *)
(***************************************************************************)
Called(stage) == \E i \in 1..Len(calls) : calls[i] = stage

RaisedIn(site) == site \in caught \/ failed.stage = site

OutputSites == {"output.mkdir", "output.write", "output.play", "output.delete"}

AllSpeech == cfg.enable_speech /\ cfg.synthesizer /\ cfg.audio_output

LastEvent == IF hist = <<>> THEN "none" ELSE hist[Len(hist)]

PrevEvent == IF Len(hist) < 2 THEN "none" ELSE hist[Len(hist) - 1]

(***************************************************************************)
(* C1: for max_turns = N >= 1, with or without a listener, when run_loop    *)
(* has returned normally it has completed exactly N turns (N run_once       *)
(* calls), and the return directly follows the N-th turn: the last events   *)
(* are "turn done, return" and only N - 1 sleeps happened.                  *)
(***************************************************************************)
C1_ExactlyMaxTurns ==
    (cfg.mode = "loop" /\ cfg.max_turns.given /\ cfg.max_turns.n >= 1
        /\ termination = "returned")
    => /\ completed_turns = cfg.max_turns.n
       /\ run_once_calls = cfg.max_turns.n
       /\ sleeps = cfg.max_turns.n - 1
       /\ PrevEvent = "turn_done"
       /\ LastEvent = "return"

C1_Witness ==
    /\ cfg.mode = "loop"
    /\ cfg.listener
    /\ cfg.max_turns.given
    /\ cfg.max_turns.n = 2
    /\ termination = "returned"
    /\ completed_turns = 2

(***************************************************************************)
(* C2: with a listener, an activation whose user_note is None never starts  *)
(* a turn, whatever the static user_note is: no turn stage is ever running  *)
(* while the last listen returned an activation without a note.             *)
(***************************************************************************)
C2_NoNoteNeverStartsTurn ==
    (cfg.mode = "loop" /\ cfg.listener /\ last_listen = "no_note")
    => pc \notin TurnPcs

(***************************************************************************)
(* C3: an exception raised by speech_synthesizer.synthesize never leaves    *)
(* run_once: no run ends with an Exception raised at the synthesize call.   *)
(***************************************************************************)
C3_SynthesisFailureContained ==
    ~(termination = "Exception" /\ failed.stage = "synthesize")

(***************************************************************************)
(* C4: no failure inside LocalAudioOutput.output (mkdir, write, play,       *)
(* delete) leaves output() and reaches run_once.                            *)
(***************************************************************************)
C4_OutputFailureContained ==
    failed.stage \in OutputSites => failed.kind /= "Exception"

(***************************************************************************)
(* C5: in run_loop, a failure of one turn stage (capture, generation,       *)
(* synthesis, playback) does not terminate run_loop.                        *)
(***************************************************************************)
C5_StageFailureKeepsLoop ==
    (cfg.mode = "loop" /\ pc = "done"
        /\ failed.stage \in {"capture", "generate", "synthesize"} \cup OutputSites)
    => termination /= "Exception"

(***************************************************************************)
(* C6: when text_generator.generate raises, run_once propagates it: the     *)
(* run has ended with that exception at the generate call, there is no      *)
(* turn result and no response text, and neither synthesize nor output was  *)
(* called.                                                                  *)
(***************************************************************************)
C6_GenerateFailurePropagates ==
    RaisedIn("generate")
    => /\ pc = "done"
       /\ failed.stage = "generate"
       /\ termination = failed.kind
       /\ result.none
       /\ response_text = None
       /\ ~Called("synthesize")
       /\ ~Called("output")

C6_Witness ==
    /\ failed = [stage |-> "generate", kind |-> "Exception"]
    /\ AllSpeech
    /\ Called("generate")

(***************************************************************************)
(* C7: synthesize and output are called only when enable_speech holds and   *)
(* both the synthesizer and the audio output are present; otherwise the     *)
(* returned result has audio_path None.                                     *)
(***************************************************************************)
C7_SpeechGate ==
    /\ (Called("synthesize") \/ Called("output")) => AllSpeech
    /\ (~AllSpeech /\ ~result.none) => result.audio_path = None
    /\ (pc = "turn_return" /\ AllSpeech) => (Called("synthesize") /\ Called("output"))

C7_Witness ==
    /\ cfg.enable_speech
    /\ cfg.synthesizer
    /\ ~cfg.audio_output
    /\ ~result.none
    /\ Called("generate")

(***************************************************************************)
(* C8: when listen_for_activation has returned no activation, the next      *)
(* step of run_loop goes back to the top of the loop with no turn, no       *)
(* sleep and the same completed-turn count, and from the top of the loop    *)
(* the only step is the next listen call.                                   *)
(***************************************************************************)
C8_NoActivationRelistens ==
    [][ /\ (pc = "listened" /\ activation.none)
           => /\ pc' = "loop_top"
              /\ completed_turns' = completed_turns
              /\ run_once_calls' = run_once_calls
              /\ sleeps' = sleeps
        /\ (pc = "loop_top" /\ cfg.listener)
           => /\ pc' = "record_primary"
              /\ listens' = listens + 1
              /\ sleeps' = sleeps
              /\ run_once_calls' = run_once_calls ]_vars

C8_Witness ==
    /\ pc = "record_primary"
    /\ last_listen = "no_activation"
    /\ listens = 2
    /\ run_once_calls = 0
    /\ sleeps = 0

(***************************************************************************)
(* C9: in run_loop every sleep directly follows a completed turn, every     *)
(* completed turn that did not reach max_turns is followed by exactly one   *)
(* sleep before the next listen or turn, and no sleep happens between two   *)
(* listens or before the first turn.                                        *)
(***************************************************************************)
C9_SleepPending ==
    IF pc = "sleep" \/ termination = "returned" \/ failed.stage = "sleep"
    THEN 1 ELSE 0

C9_SleepOnlyAfterTurn ==
    cfg.mode = "loop"
    => /\ sleeps = completed_turns - C9_SleepPending
       /\ \A i \in 2..Len(hist) :
             /\ hist[i] = "sleep" => hist[i - 1] = "turn_done"
             /\ hist[i - 1] = "turn_done" => hist[i] \in {"sleep", "return"}
       /\ pc = "sleep" => LastEvent = "turn_done"

C9_Witness ==
    /\ cfg.mode = "loop"
    /\ cfg.listener
    /\ sleeps = 1
    /\ completed_turns = 1
    /\ PrevEvent = "sleep"
    /\ LastEvent = "listen"

(***************************************************************************)
(* C10: an Exception raised while recording or transcribing the primary     *)
(* clip never leaves listen_for_activation; the call returns None and no    *)
(* follow-up clip is recorded.                                              *)
(***************************************************************************)
C10_PrimaryFailureIsNoActivation ==
    /\ failed.stage \in {"record_primary", "transcribe_primary"}
          => failed.kind /= "Exception"
    /\ (caught \cap {"record_primary", "transcribe_primary"} /= {})
          => /\ pc \in {"listened", "loop_top"}
             /\ activation.none
             /\ last_listen = "no_activation"
             /\ termination = "none"
             /\ clips <= 1
             /\ caught \cap {"record_followup", "transcribe_followup"} = {}

C10_Witness ==
    /\ pc = "listened"
    /\ "transcribe_primary" \in caught
    /\ clips = 1
    /\ activation.none

(***************************************************************************)
(* Helpers for the listener properties, written from the wording of the     *)
(* claims and not from the operators of the listener.                       *)
(***************************************************************************)
PrimarySites == {"record_primary", "transcribe_primary"}

FollowupSites == {"record_followup", "transcribe_followup"}

PrimaryFailed == caught \cap PrimarySites /= {}

FollowupFailed == caught \cap FollowupSites /= {}

SameLetter(a, b) ==
    \/ a = b
    \/ {a, b} \in {{"a", "A"}, {"b", "B"}, {"o", "O"}}

WholeWordAt(t, i) ==
    /\ i \in 1..(Len(t) - Len(WakeWord) + 1)
    /\ \A k \in 1..Len(WakeWord) : SameLetter(t[i + k - 1], WakeWord[k])
    /\ i = 1 \/ t[i - 1] \notin WordChars
    /\ i + Len(WakeWord) > Len(t) \/ t[i + Len(WakeWord)] \notin WordChars

HasWakeWord(t) == \E i \in 1..Len(t) : WholeWordAt(t, i)

TrailingAfterLast(t) ==
    LET starts == {i \in 1..Len(t) : WholeWordAt(t, i)}
        last == CHOOSE i \in starts : \A j \in starts : j <= i
    IN  SubSeq(t, last + Len(WakeWord), Len(t))

TrimLead(x) ==
    LET k == CHOOSE n \in 1..(Len(x) + 1) :
                 /\ \A j \in 1..(n - 1) : x[j] \in NoteLeadChars
                 /\ n <= Len(x) => x[n] \notin NoteLeadChars
    IN  SubSeq(x, k, Len(x))

UsableTrailing(t) == HasWakeWord(t) /\ TrimLead(TrailingAfterLast(t)) /= <<>>

NoUsableTrailing(t) == HasWakeWord(t) /\ TrimLead(TrailingAfterLast(t)) = <<>>

(***************************************************************************)
(* C11 (as stated): when recording or transcribing the follow-up clip       *)
(* raised an Exception, listen_for_activation has returned None.            *)
(***************************************************************************)
C11_FollowupFailureReturnsNone ==
    (pc = "listened" /\ FollowupFailed) => activation.none

(***************************************************************************)
(* C11 (amended): an Exception raised while recording or transcribing the   *)
(* follow-up clip never leaves listen_for_activation; the call returns an   *)
(* activation (not None) whose user_note is None and whose transcript is    *)
(* the unmodified primary transcript.                                       *)
(***************************************************************************)
C11_FollowupFailureKeepsActivation ==
    /\ failed.stage \in FollowupSites => failed.kind /= "Exception"
    /\ FollowupFailed
          => /\ pc \in {"listened", "loop_top"}
             /\ termination = "none"
             /\ last_listen = "no_note"
             /\ pc = "listened"
                   => /\ activation = VoiceActivation(transcript, WakeWord, None)
                      /\ followup_transcript = <<>>

C11_Witness ==
    /\ pc = "listened"
    /\ "transcribe_followup" \in caught
    /\ clips = 2
    /\ ~activation.none

(***************************************************************************)
(* C12: when the primary transcript contains the wake word and the text     *)
(* after its last occurrence is non-empty once leading punctuation and      *)
(* whitespace are trimmed, the call returns an activation with that trimmed *)
(* text as user_note and the primary transcript as transcript, after one    *)
(* recording and no follow-up.                                              *)
(***************************************************************************)
C12_TrailingTextIsNote ==
    (pc = "listened" /\ ~PrimaryFailed /\ UsableTrailing(transcript))
    => /\ activation = VoiceActivation(transcript, WakeWord,
                                       TrimLead(TrailingAfterLast(transcript)))
       /\ clips = 1
       /\ record_calls = <<ListenSeconds>>
       /\ followup_transcript = None
       /\ ~FollowupFailed

C12_Witness ==
    /\ pc = "listened"
    /\ transcript = <<"b", "o", " ", "a", " ", "b", "o", " ", "g", "o">>
    /\ ~activation.none
    /\ activation.user_note = <<"g", "o">>

(***************************************************************************)
(* C13: a follow-up clip is recorded exactly when the wake word matched     *)
(* with no usable trailing text; then there is exactly one follow-up        *)
(* _record_clip call, with the follow-up duration, and its clip is          *)
(* transcribed; when the follow-up yields a usable note, the activation     *)
(* carries the cleaned follow-up text as user_note and the primary          *)
(* transcript followed by the follow-up transcript as transcript.           *)
(***************************************************************************)
C13_FollowupClip ==
    /\ pc \in FollowupSites => (~PrimaryFailed /\ NoUsableTrailing(transcript))
    /\ pc = "transcribe_followup"
          => record_calls = <<ListenSeconds, FollowupListenSeconds>>
    /\ (pc = "listened" /\ ~PrimaryFailed /\ NoUsableTrailing(transcript))
          => /\ record_calls = <<ListenSeconds, FollowupListenSeconds>>
             /\ followup_transcript /= None
             /\ ~FollowupFailed => clips = 2
             /\ TrimLead(followup_transcript) /= <<>>
                   => activation =
                         VoiceActivation(
                             transcript \o <<" ">> \o followup_transcript,
                             WakeWord, TrimLead(followup_transcript))

C13_Witness ==
    /\ pc = "listened"
    /\ transcript = <<"b", "o", ".">>
    /\ followup_transcript = <<"-", " ", "g", "o">>
    /\ clips = 2
    /\ ~activation.none
    /\ activation.user_note = <<"g", "o">>

(***************************************************************************)
(* C14: when the wake word matched with no usable trailing text and the     *)
(* follow-up transcript is empty or punctuation/whitespace only, the call   *)
(* returns an activation (not None) with user_note None and the unmodified  *)
(* primary transcript.                                                      *)
(***************************************************************************)
C14_EmptyFollowupKeepsActivation ==
    (pc = "listened" /\ ~PrimaryFailed /\ NoUsableTrailing(transcript)
        /\ followup_transcript /= None
        /\ TrimLead(followup_transcript) = <<>>)
    => /\ ~activation.none
       /\ activation.user_note = None
       /\ activation.transcript = transcript
       /\ activation.wake_word = WakeWord

C14_Witness ==
    /\ pc = "listened"
    /\ transcript = <<"b", "o">>
    /\ followup_transcript = <<"?">>
    /\ ~FollowupFailed
    /\ ~activation.none

(***************************************************************************)
(* C15: the user_note of every activation returned is None or a string      *)
(* that is non-empty and not all whitespace; never the empty string.        *)
(***************************************************************************)
C15_NoteNoneOrNonEmpty ==
    ~activation.none
    => \/ activation.user_note = None
       \/ /\ activation.user_note /= <<>>
          /\ \E i \in 1..Len(activation.user_note) :
                activation.user_note[i] \notin Whitespace

C15_Witness ==
    /\ pc = "listened"
    /\ transcript = <<"b", "o", ".">>
    /\ followup_transcript = <<".">>
    /\ ~activation.none
    /\ activation.user_note = None

(***************************************************************************)
(* C16: a transcript activates exactly when the wake word occurs in it as   *)
(* a whole word (not inside a longer word), in any letter case.             *)
(***************************************************************************)
C16_WholeWordCaseInsensitive ==
    (pc = "listened" /\ ~PrimaryFailed)
    => (activation.none <=> ~HasWakeWord(transcript))

C16_Witness ==
    /\ pc = "listened"
    /\ ~PrimaryFailed
    /\ transcript = <<"o", "b", "o">>
    /\ activation.none
    /\ clips = 1

(***************************************************************************)
(* C17: the mapping returned by CompositeContextCollector.collect has as    *)
(* keys exactly the "{provider_name}.{field_name}" keys of the fields the   *)
(* providers returned, each key once, and the value under a key is the      *)
(* (string form of the) value of the last provider in the configured order  *)
(* that produced that key.                                                  *)
(***************************************************************************)
ProvidedFields ==
    { <<i, j>> \in (1..Len(providers)) \X (1..MaxFields + 1) :
          j <= Len(providers[i].values) }

ProvidedKey(f) ==
    providers[f[1]].name \o <<".">> \o providers[f[1]].values[f[2]][1]

LastProducer(key) ==
    CHOOSE f \in ProvidedFields :
        /\ ProvidedKey(f) = key
        /\ \A g \in ProvidedFields : ProvidedKey(g) = key => g[1] <= f[1]

C17_CollectKeysAndLastWins ==
    lib_pc = "collected"
    => /\ { merged[k][1] : k \in 1..Len(merged) }
              = { ProvidedKey(f) : f \in ProvidedFields }
       /\ \A k, l \in 1..Len(merged) : merged[k][1] = merged[l][1] => k = l
       /\ \A k \in 1..Len(merged) :
              LET f == LastProducer(merged[k][1])
              IN  merged[k][2] = PyStr(providers[f[1]].values[f[2]][2])

C17_Witness ==
    /\ lib_pc = "collected"
    /\ Len(providers) = 2
    /\ providers[1].name /= providers[2].name
    /\ Len(providers[1].values) = 1
    /\ Len(providers[2].values) = 1
    /\ providers[1].values[1][2] = StrValue(<<"v">>)
    /\ providers[2].values[1][2] = IntValue(1)
    /\ merged = << <<<<"a", ".", "b", ".", "c">>, <<"1">>>> >>

(***************************************************************************)
(* C18: for two context mappings holding the same key/value pairs in any    *)
(* insertion order and the same user note, build_user_prompt produces the   *)
(* same text, and that text ends with the context lines "- key: value" in   *)
(* ascending key order (or the no-context sentence) followed by the closing *)
(* line.                                                                    *)
(***************************************************************************)
AscendingByKey(d) ==
    CHOOSE e \in Reorderings(d) :
        \A i, j \in 1..Len(e) : i < j => StrLess(e[i][1], e[j][1])

RECURSIVE LinesText(_)
LinesText(d) ==
    IF d = <<>> THEN <<>>
    ELSE <<"-", " ">> \o Head(d)[1] \o <<":", " ">> \o Head(d)[2]
             \o (IF Len(d) = 1 THEN <<>> ELSE <<"\n">>) \o LinesText(Tail(d))

ExpectedPromptEnd(d) ==
    <<"Structured context:\n">>
        \o (IF d = <<>> THEN <<"No structured context was collected.">>
            ELSE LinesText(AscendingByKey(d)))
        \o <<"\n\n", "Return only the spoken reply.">>

EndsWith(text, suffix) ==
    /\ Len(suffix) <= Len(text)
    /\ SubSeq(text, Len(text) - Len(suffix) + 1, Len(text)) = suffix

C18_PromptOrderIndependent ==
    lib_pc = "built"
    => /\ prompt_a = prompt_b
       /\ EndsWith(prompt_a, ExpectedPromptEnd(context_a))

C18_Witness ==
    /\ lib_pc = "built"
    /\ Len(context_a) = 3
    /\ context_a /= context_b
    /\ context_a /= AscendingByKey(context_a)
    /\ context_b /= AscendingByKey(context_a)
    /\ note_in = <<"h", "i", " ">>
    /\ prompt_a = prompt_b

(***************************************************************************)
(* Helpers for the registry properties, stated over the history of          *)
(* register calls.                                                          *)
(***************************************************************************)
RegisteredNames == { registered[i][1] : i \in 1..Len(registered) }

LatestFactory(name) ==
    LET i == CHOOSE k \in 1..Len(registered) :
                 /\ registered[k][1] = name
                 /\ \A l \in 1..Len(registered) :
                        registered[l][1] = name => l <= k
    IN  registered[i][2]

AscendingRegisteredNames ==
    CHOOSE e \in [1..Cardinality(RegisteredNames) -> RegisteredNames] :
        \A i, j \in 1..Len(e) : i < j => StrLess(e[i], e[j])

RECURSIVE CommaList(_)
CommaList(names) ==
    IF names = <<>> THEN <<>>
    ELSE Head(names) \o (IF Len(names) = 1 THEN <<>> ELSE <<",", " ">>)
             \o CommaList(Tail(names))

ExpectedUnknownMessage(name) ==
    <<"Unknown context provider ", "'">> \o name
        \o <<"'", ".", " Available: ">> \o CommaList(AscendingRegisteredNames)

RegistryStep(op) == last_call'.n = last_call.n + 1 /\ last_call'.op = op

(***************************************************************************)
(* C19: create(name) for an unregistered name raises the unknown-provider   *)
(* error whose message lists every registered name in ascending order,      *)
(* creates no instance and leaves the registry unchanged; for a registered  *)
(* name it returns one new instance made by the factory most recently       *)
(* registered under that name.                                              *)
(***************************************************************************)
C19_Create ==
    [][RegistryStep("create")
       => LET name == last_call'.names[1]
          IN  /\ factories' = factories
              /\ IF name \notin RegisteredNames
                 THEN /\ last_call'.raised
                      /\ last_call'.value = <<>>
                      /\ last_call'.message = ExpectedUnknownMessage(name)
                      /\ instantiated' = instantiated
                 ELSE /\ ~last_call'.raised
                      /\ instantiated' = instantiated + 1
                      /\ last_call'.value =
                             <<Instance(LatestFactory(name), instantiated')>>
      ]_vars

C19_Witness ==
    /\ last_call.op = "create"
    /\ last_call.raised
    /\ last_call.names = << <<"a", "b">> >>
    /\ registered = << << <<"b">>, <<"F1">> >>, << <<"a">>, <<"F2">> >> >>
    /\ instantiated = 0

(***************************************************************************)
(* C20: create_many(names) returns, in the caller's order, one new instance *)
(* per listed name, the i-th made for the i-th name by its registered       *)
(* factory; when a listed name is unregistered it raises the error for the  *)
(* first such name and returns no list.                                     *)
(***************************************************************************)
C20_CreateMany ==
    [][RegistryStep("create_many")
       => LET names == last_call'.names
              unknown == { i \in 1..Len(names) : names[i] \notin RegisteredNames }
          IN  /\ factories' = factories
              /\ IF unknown = {}
                 THEN /\ ~last_call'.raised
                      /\ Len(last_call'.value) = Len(names)
                      /\ \A i \in 1..Len(names) :
                             last_call'.value[i] =
                                 Instance(LatestFactory(names[i]), instantiated + i)
                      /\ instantiated' = instantiated + Len(names)
                 ELSE LET first == CHOOSE i \in unknown : \A j \in unknown : i <= j
                      IN  /\ last_call'.raised
                          /\ last_call'.value = <<>>
                          /\ last_call'.message =
                                 ExpectedUnknownMessage(names[first])
      ]_vars

C20_Witness ==
    /\ last_call.op = "create_many"
    /\ ~last_call.raised
    /\ last_call.names = << <<"b">>, <<"a">> >>
    /\ Len(last_call.value) = 2
    /\ last_call.value[1].factory = <<"F1">>
    /\ last_call.value[2].factory = <<"F2">>
    /\ last_call.value[1].serial < last_call.value[2].serial

(***************************************************************************)
(* C21: no Exception raised by playback or by the deletion of the file      *)
(* leaves LocalAudioOutput.output; once the file is written, output returns *)
(* None exactly when autoplay and cleanup_after_playback are both enabled   *)
(* and the path of the written file otherwise, also when playback or        *)
(* deletion failed.                                                         *)
(***************************************************************************)
C21_PlaybackCleanupSwallowed ==
    /\ failed.stage \in {"output.play", "output.delete"}
          => failed.kind /= "Exception"
    /\ (pc = "turn_return" /\ Called("output"))
          => /\ (cfg.autoplay /\ cfg.cleanup_after_playback) => audio_path = None
             /\ ~(cfg.autoplay /\ cfg.cleanup_after_playback)
                   => audio_path = AudioFile
             /\ "output.delete" \in caught
                   => cfg.autoplay /\ cfg.cleanup_after_playback
             /\ "output.play" \in caught => cfg.autoplay

C21_Witness ==
    /\ pc = "turn_return"
    /\ Called("output")
    /\ "output.play" \in caught
    /\ "output.delete" \in caught
    /\ audio_path = None

(***************************************************************************)
(* C22: generate either raises or returns a text that is non-empty and not  *)
(* whitespace only, for every response shape.                               *)
(***************************************************************************)
C22_GenerateNeverEmpty ==
    lib_pc = "generated"
    => \/ generated.raised
       \/ /\ generated.text /= None
          /\ \E i \in 1..Len(generated.text) :
                generated.text[i] \notin Whitespace

(***************************************************************************)
(* C23: synthesize sends its request exactly for a text that is non-empty   *)
(* after trimming; for an empty or whitespace-only text it raises an        *)
(* Exception with no request made and no audio produced.                    *)
(***************************************************************************)
HasNonWhitespace(text) == \E i \in 1..Len(text) : text[i] \notin Whitespace

C23_SynthesizeRejectsEmpty ==
    (Called("synthesize") /\ response_text /= None)
    => /\ Called("synthesize.request") <=> HasNonWhitespace(response_text)
       /\ ~HasNonWhitespace(response_text)
             => /\ failed = [stage |-> "synthesize", kind |-> "Exception"]
                /\ wav_bytes = None

C23_Witness ==
    /\ Called("synthesize")
    /\ response_text = <<" ">>
    /\ ~Called("synthesize.request")
    /\ failed.stage = "synthesize"

(***************************************************************************)
(* C24: the stages of a turn run in the order collect, capture, generate,   *)
(* synthesize, output, each at most once and each only after the previous   *)
(* one finished, the last two only when speech applies; in run_loop at most *)
(* one turn is in flight, and no listen and no stage of another turn starts *)
(* while a turn is unfinished.                                              *)
(***************************************************************************)
StageOrder == <<"collect", "capture", "generate", "synthesize", "output">>

IsStage(call) == \E i \in 1..Len(StageOrder) : StageOrder[i] = call

TurnStages == SelectSeq(calls, IsStage)

IsPrefix(a, b) == Len(a) <= Len(b) /\ SubSeq(b, 1, Len(a)) = a

StagesBefore(position) ==
    CASE position = "collect" -> 0
      [] position = "capture" -> 1
      [] position = "generate" -> 2
      [] position = "synthesize" -> 3
      [] position = "output" -> 4
      [] position = "turn_return" -> IF AllSpeech THEN 5 ELSE 3

C24_StagesSequential ==
    /\ IsPrefix(TurnStages, StageOrder)
    /\ Len(TurnStages) > 3 => AllSpeech
    /\ pc \in TurnPcs => Len(TurnStages) = StagesBefore(pc)
    /\ (cfg.mode = "loop" /\ termination \in {"none", "returned"})
          => run_once_calls
                 = completed_turns + (IF pc \in TurnPcs THEN 1 ELSE 0)
    /\ pc \in ListenerPcs \cup {"listened"}
          => /\ cfg.mode = "loop"
             /\ run_once_calls = completed_turns

C24_Witness ==
    /\ pc = "turn_return"
    /\ cfg.listener
    /\ completed_turns = 1
    /\ run_once_calls = 2
    /\ TurnStages = StageOrder

(***************************************************************************)
(* C25: in run_loop with a listener, an activation carrying a usable note   *)
(* starts a turn whose note is exactly that activation's note, whatever the *)
(* static user_note is; a turn starts only from the activation just         *)
(* returned and keeps its note until it ends; with no listener every turn   *)
(* starts with the static user_note.                                        *)
(***************************************************************************)
UsableNote(activation_) ==
    /\ ~activation_.none
    /\ activation_.user_note /= None
    /\ HasNonWhitespace(activation_.user_note)

TurnStarts == pc /= "collect" /\ pc' = "collect"

C25_TurnUsesActivationNote ==
    [][/\ (pc = "listened" /\ UsableNote(activation))
             => /\ TurnStarts
                /\ turn_note' = activation.user_note
       /\ TurnStarts
             => IF cfg.mode = "loop" /\ cfg.listener
                THEN pc = "listened"
                ELSE turn_note' = cfg.user_note
       /\ (pc \in TurnPcs /\ pc' \in TurnPcs /\ pc' /= "collect")
             => turn_note' = turn_note
      ]_vars

C25_Witness ==
    /\ pc = "collect"
    /\ cfg.listener
    /\ cfg.user_note = <<"h", "i">>
    /\ turn_note = <<"a">>
    /\ completed_turns = 1
    /\ last_listen = "note"

(***************************************************************************)
(* C26: an exception raised by context collection leaves run_once at once,  *)
(* with no screen capture and no generate call; an exception raised by the  *)
(* screen capture leaves run_once at once, with no generate, synthesize or  *)
(* output call.                                                             *)
(***************************************************************************)
C26_UpstreamFailureIsTurnFatal ==
    /\ RaisedIn("collect")
          => /\ failed.stage = "collect"
             /\ termination = failed.kind
             /\ pc = "done"
             /\ calls = <<"collect">>
             /\ result = NoResult
    /\ RaisedIn("capture")
          => /\ failed.stage = "capture"
             /\ termination = failed.kind
             /\ pc = "done"
             /\ calls = <<"collect", "capture">>
             /\ result = NoResult

C26_Witness ==
    /\ failed = [stage |-> "capture", kind |-> "Exception"]
    /\ calls = <<"collect", "capture">>
    /\ cfg.mode = "loop"
    /\ AllSpeech
    /\ pc = "done"

(***************************************************************************)
(* C27: when the primary transcript is empty or holds no whole-word         *)
(* occurrence of the wake word, listen_for_activation returns None as an    *)
(* ordinary return value after exactly one recording, and no follow-up clip *)
(* is recorded or transcribed.                                              *)
(***************************************************************************)
C27_NoMatchReturnsNone ==
    /\ (pc = "listened" /\ ~PrimaryFailed /\ ~HasWakeWord(transcript))
          => /\ activation = NoneActivation
             /\ termination = "none"
             /\ last_listen = "no_activation"
             /\ clips = 1
             /\ record_calls = <<ListenSeconds>>
             /\ followup_transcript = None
             /\ caught = {}
    /\ pc \in FollowupSites => HasWakeWord(transcript)

C27_Witness ==
    /\ pc = "listened"
    /\ ~PrimaryFailed
    /\ transcript = <<"o", " ", "b">>
    /\ activation.none
    /\ clips = 1

(***************************************************************************)
(* C28: with max_turns = N >= 1, a run_loop in which no call raises         *)
(* eventually returns, with or without a listener (with one, given that     *)
(* activations carrying a usable note keep occurring); with max_turns None  *)
(* run_loop never returns normally.                                         *)
(***************************************************************************)
NothingRaised == failed.stage = "none"

UsableActivationHeard == pc = "listened" /\ last_listen = "note"

C28_LoopTerminates ==
    /\ (/\ cfg.max_turns.given
        /\ cfg.max_turns.n >= 1
        /\ []NothingRaised
        /\ cfg.listener => []<>UsableActivationHeard)
       => <>(termination = "returned")
    /\ [](~cfg.max_turns.given => termination /= "returned")

C28_Witness ==
    /\ cfg.listener
    /\ cfg.user_note = None
    /\ cfg.max_turns = [given |-> TRUE, n |-> 2]
    /\ termination = "returned"
    /\ completed_turns = 2
    /\ listens = MaxListens


(***************************************************************************)
(* C29: build_user_prompt gives the "no explicit request" prompt exactly    *)
(* when the note is None, empty or made of whitespace only, and otherwise   *)
(* the direct-answer prompt with the note trimmed of its leading and        *)
(* trailing whitespace; both end with the same rendered context block.      *)
(***************************************************************************)
WhitespaceOnly(text) ==
    text /= None /\ \A i \in 1..Len(text) : text[i] \in Whitespace

NoExplicitRequest(note) == note = None \/ WhitespaceOnly(note)

Trimmed(text) ==
    LET first == CHOOSE i \in 1..Len(text) :
                     /\ text[i] \notin Whitespace
                     /\ \A k \in 1..(i - 1) : text[k] \in Whitespace
        last == CHOOSE j \in 1..Len(text) :
                    /\ text[j] \notin Whitespace
                    /\ \A k \in (j + 1)..Len(text) : text[k] \in Whitespace
    IN  SubSeq(text, first, last)

C29_PromptBranch ==
    lib_pc /= "build_a"
    => /\ NoExplicitRequest(note_in) <=> IsPrefix(CheckInPromptHead, prompt_a)
       /\ prompt_a =
              IF NoExplicitRequest(note_in)
              THEN CheckInPromptHead \o ExpectedPromptEnd(context_a)
              ELSE NotePromptHead \o Trimmed(note_in) \o <<"\n\n">>
                       \o ExpectedPromptEnd(context_a)

C29_Witness ==
    /\ lib_pc = "built"
    /\ note_in = <<" ", " ">>
    /\ context_a /= <<>>
    /\ IsPrefix(CheckInPromptHead, prompt_a)
    /\ EndsWith(prompt_a, ExpectedPromptEnd(context_a))

(***************************************************************************)
(* C30: run_loop tests max_turns only after a completed turn, so it never   *)
(* returns before one turn has completed; with max_turns <= 0 it never      *)
(* sleeps and never starts a second turn, and when it returns it has        *)
(* executed exactly one turn.                                               *)
(***************************************************************************)
NonPositiveMaxTurns == cfg.max_turns.given /\ cfg.max_turns.n <= 0

LoopReturned == cfg.mode = "loop" /\ termination = "returned"

ListenSites == PrimarySites \cup FollowupSites

InterruptedAt(site) ==
    /\ pc = "done"
    /\ termination = "KeyboardInterrupt"
    /\ failed = [stage |-> site, kind |-> "KeyboardInterrupt"]

InterruptedInListener == \E site \in ListenSites : InterruptedAt(site)

InterruptLeaves(site) ==
    ENABLED (/\ Next
             /\ pc' = "done"
             /\ termination' = "KeyboardInterrupt"
             /\ failed' = [stage |-> site, kind |-> "KeyboardInterrupt"]
             /\ UNCHANGED <<listens, clips, run_once_calls, sleeps,
                            completed_turns, caught, activation, last_listen>>)

C31_InterruptStopsLoop ==
    /\ [](/\ pc \in {"record_primary", "record_followup"} => InterruptLeaves(pc)
          /\ (pc \in {"transcribe_primary", "transcribe_followup"}
                 /\ pcm /= PcmEmpty) => InterruptLeaves(pc)
          /\ (failed.stage \in ListenSites /\ failed.kind = "KeyboardInterrupt")
                 => /\ InterruptedInListener
                    /\ failed.stage \notin caught
                    /\ cfg.mode = "loop"
                    /\ exit_code = "0")
    /\ [][~InterruptedInListener]_vars

C31_Witness ==
    /\ InterruptedAt("transcribe_followup")
    /\ listens = 2
    /\ clips = 2
    /\ completed_turns = 1
    /\ sleeps = 1
=============================================================================
